---- MODULE Spec2Model ----
(***************************************************************************)
(* A model of export_photos.py: the export of a Photos library into a      *)
(* date-organised directory tree.  The script is one sequential program;   *)
(* its position is pc, and every action below is one stretch of the        *)
(* script between two observable points (a row fetched from the cursor, a  *)
(* photo of the stack copied, a photo post-processed, ...).                *)
(*                                                                         *)
(* Strings the script builds are modelled by what they consist of:         *)
(*   strftime("%Y-%m-%d")          -> <<day number>>           ("" = <<>>) *)
(*   strftime("%Y:%m:%d %H:%M:%S") -> <<day number, H, M, S>>  ("" = <<>>) *)
(*   stack_timestamp + " " + place -> <<day key, place>> (the day key has  *)
(*       a fixed width, so the pair and the string determine each other)   *)
(*   os.path.join(dir, fileName)   -> <<dir, fileName>>                    *)
(* Place names and their ", " join are TLA+ strings.                       *)
(***************************************************************************)
EXTENDS Integers, Sequences, FiniteSets, TLC

VARIABLES
    args,               \* the parsed command line (lines 16-36)
    rows,               \* result of the photo query, ORDER BY v.imageDate (273-278)
    RKPlaceForVersion,  \* modelId -> set of placeIds
    RKFace,             \* uuid -> set of person names tagged on the photo
    masters,            \* imagePath -> the file under <library>/Masters
    dirs,               \* sub-directories existing under destinationRoot
    files,              \* destination path -> file, for the files existing there
    pc,                 \* position of the script
    cursor,             \* index of the next row the cursor of the loop yields
    stack, stack_timestamp, places_freq,
    index, copied, ignored,
    destinationSubDir,  \* of the stack being flushed
    photoIdx,           \* position of "for photo in stack"
    destinationFile, status,   \* result of the last copyPhoto
    dbOpen, tempDir, etRunning,
    etLog,              \* commands received by the ExifTool process in this run
    decisions,          \* (photo, destination, status) returned by copyPhoto in this run
    flushes,            \* the stacks handed to the copy loop in this run
    run,                \* number of the current invocation of the script
    prev                \* what the previous invocation did (<<>> in the first)

vars == <<args, rows, RKPlaceForVersion, RKFace, masters, dirs, files, pc, cursor,
          stack, stack_timestamp, places_freq, index, copied, ignored,
          destinationSubDir, photoIdx, destinationFile, status,
          dbOpen, tempDir, etRunning, etLog, decisions, flushes, run, prev>>

library == <<args, rows, RKPlaceForVersion, RKFace, masters>>

-----------------------------------------------------------------------------
(* Bounds of the model. *)

MaxPhotos == 3
MaxRuns == 2

(* Seconds in a day and in an hour and a minute: the calendar arithmetic of  *)
(* datetime.fromtimestamp(..., timezone.utc) and strftime.                  *)
SecondsPerDay == 86400
SecondsPerHour == 3600
SecondsPerMinute == 60

-----------------------------------------------------------------------------
(* The library's place table (RKPlace): modelId -> defaultName, area. *)

RKPlace ==
    (1 :> [defaultName |-> "Kitchen", area |-> 1]) @@
    (2 :> [defaultName |-> "Garden",  area |-> 2]) @@
    (3 :> [defaultName |-> "Utrecht", area |-> 50])

PlaceIds == DOMAIN RKPlace

(* File names are a stem and an extension, os.path.splitext's two parts. *)
FileName(stem, ext) == [stem |-> stem, ext |-> ext]

splitext(fileName) == <<fileName.stem, fileName.ext>>

(* str.lower() on the extensions that occur. *)
lower(s) ==
    CASE s = ".JPG"  -> ".jpg"
      [] s = ".Jpeg" -> ".jpeg"
      [] s = ".PNG"  -> ".png"
      [] OTHER       -> s

-----------------------------------------------------------------------------
(* Timestamp Resolver (lines 194-199, 237, 281). *)

\* (mutant) the time zone offset of the photo is left out
photoTimestampNoOffset(row) == row.date

\* datetime.fromtimestamp(epoch + row["date"] + row["offset"], timezone.utc),
\* as seconds since the Cocoa epoch 2001-01-01T00:00:00Z.
photoTimestamp(row) == row.date + row.offset

\* .strftime("%Y-%m-%d"): the calendar day of the instant.
strftimeDay(t) == <<t \div SecondsPerDay>>

\* .strftime("%Y:%m:%d %H:%M:%S")
strftimeExif(t) ==
    <<t \div SecondsPerDay,
      (t % SecondsPerDay) \div SecondsPerHour,
      (t % SecondsPerHour) \div SecondsPerMinute,
      t % SecondsPerMinute>>

-----------------------------------------------------------------------------
(* Place Resolver (lines 135-157). *)

\* The rows of "SELECT DISTINCT defaultName ... WHERE modelId IN (ids) ORDER BY area ASC":
\* the names of the selected places, smallest area first, each name once.
RECURSIVE PlacesByArea(_)
PlacesByArea(ids) ==
    IF ids = {} THEN <<>>
    ELSE LET least == CHOOSE p \in ids :
                        \A q \in ids : <<RKPlace[p].area, p>> = <<RKPlace[q].area, q>>
                                       \/ RKPlace[p].area < RKPlace[q].area
                                       \/ (RKPlace[p].area = RKPlace[q].area /\ p < q)
             rest  == PlacesByArea({q \in ids : RKPlace[q].defaultName # RKPlace[least].defaultName})
         IN  <<RKPlace[least].defaultName>> \o rest

\* (mutant) the rows are left smallest area first
ReverseOmitted(s) == s

Reverse(s) == [i \in 1..Len(s) |-> s[Len(s) + 1 - i]]

\* ', '.join(names)
RECURSIVE JoinComma(_)
JoinComma(names) ==
    IF names = <<>> THEN ""
    ELSE IF Len(names) = 1 THEN names[1]
    ELSE names[1] \o ", " \o JoinComma(Tail(names))

\* placeByModelId for a given value of args.region
placeByModelIdWith(region, modelId) ==
    LET placeIds == RKPlaceForVersion[modelId]
        regional_info == PlacesByArea(placeIds \cap PlaceIds)
    IN  IF placeIds # {} /\ Len(regional_info) > 0
        THEN IF region
             THEN JoinComma(Reverse(regional_info))
             ELSE regional_info[1]
        ELSE ""

placeByModelId(modelId) == placeByModelIdWith(args.region, modelId)

\* Face Resolver (lines 160-171).
facesByUuid(uuId) == RKFace[uuId]

-----------------------------------------------------------------------------
(* The place tally: a Python dict, which keeps its keys in insertion order. *)
(* It is a sequence of [place, n] with distinct places.                     *)

TallyKeys(freq) == {freq[i].place : i \in 1..Len(freq)}

\* places_freq[place] = places_freq.get(place, 0) + 1      (line 288)
TallyIncrement(freq, place) ==
    IF place \in TallyKeys(freq)
    THEN [i \in 1..Len(freq) |->
            IF freq[i].place = place THEN [freq[i] EXCEPT !.n = @ + 1] ELSE freq[i]]
    ELSE Append(freq, [place |-> place, n |-> 1])

\* lines 285-288: the tally after a photo joined the open stack
TallyAfterAppend(freq, place) ==
    IF args.location /\ place # "" THEN TallyIncrement(freq, place) ELSE freq

\* (mutant) the tally of the flushed stack is kept when a stack is opened
TallySeedCarried(freq, place) == TallyAfterAppend(freq, place)

\* (mutant) the photo that opens a stack is not counted
TallySeedEmpty(freq, place) == IF args.location THEN <<>> ELSE freq

\* lines 335-342: the tally of a stack just opened by a photo
TallySeed(freq, place) ==
    IF args.location
    THEN IF place # "" THEN <<[place |-> place, n |-> 1]>> ELSE <<>>
    ELSE freq

\* (mutant) the last key, in insertion order, whose count no other key exceeds
MaxKeyLast(freq) ==
    LET i == CHOOSE i \in 1..Len(freq) :
                /\ \A j \in 1..Len(freq) : freq[j].n <= freq[i].n
                /\ \A j \in (i + 1)..Len(freq) : freq[j].n < freq[i].n
    IN  freq[i].place

\* max(places_freq, key = places_freq.get): the first key, in insertion order,
\* whose count no other key exceeds.
MaxKey(freq) ==
    LET i == CHOOSE i \in 1..Len(freq) :
                /\ \A j \in 1..Len(freq) : freq[j].n <= freq[i].n
                /\ \A j \in 1..(i - 1) : freq[j].n < freq[i].n
    IN  freq[i].place

\* lines 299-303: the dominant place of the stack
DominantPlace(freq) ==
    IF args.location /\ Len(freq) > 0 THEN MaxKey(freq) ELSE ""

\* line 306: stack_timestamp + (" " + place if len(place) else "")
SubDirName(timestamp, place) == <<timestamp, place>>

-----------------------------------------------------------------------------
(* copyPhoto (lines 208-227). *)

DestinationFile(row, subDir) == <<subDir, row.fileName>>

isfile(fs, path) == path \in DOMAIN fs

\* (mutant) the directory is made in a dry run too
DirsAfterCopyAlways(ds, subDir) == ds \cup {subDir}

\* line 213-214: ensureDirExists unless dry run
DirsAfterCopy(ds, subDir) ==
    IF ~args.dryrun THEN ds \cup {subDir} ELSE ds

\* lines 217-227: the status returned
CopyStatus(fs, row, subDir) ==
    IF ~isfile(fs, DestinationFile(row, subDir)) THEN 1 ELSE 2

\* (mutant) the file is copied over the one that is there
FilesAfterCopyOverwrite(fs, row, subDir) ==
    IF ~args.dryrun
    THEN [p \in DOMAIN fs \cup {<<subDir, row.fileName>>} |->
            IF p = <<subDir, row.fileName>> THEN masters[row.imagePath] ELSE fs[p]]
    ELSE fs

\* lines 217-219: shutil.copy(sourceImageFile, destinationFile)
FilesAfterCopy(fs, row, subDir) ==
    IF ~isfile(fs, DestinationFile(row, subDir)) /\ ~args.dryrun
    THEN (DestinationFile(row, subDir) :> masters[row.imagePath]) @@ fs
    ELSE fs

-----------------------------------------------------------------------------
(* Metadata Synchronizer (lines 174-191, 231-252). *)

\* (mutant) DateTimeOriginal is looked at before CreateDate
currentDateInExifOriginalFirst(file) ==
    IF "EXIF:DateTimeOriginal" \in DOMAIN file.tags THEN file.tags["EXIF:DateTimeOriginal"]
    ELSE IF "EXIF:CreateDate" \in DOMAIN file.tags THEN file.tags["EXIF:CreateDate"]
    ELSE <<>>

\* currentDateInExif: the tags are a dict, a function on the tags present
currentDateInExif(file) ==
    IF "EXIF:CreateDate" \in DOMAIN file.tags THEN file.tags["EXIF:CreateDate"]
    ELSE IF "EXIF:DateTimeOriginal" \in DOMAIN file.tags THEN file.tags["EXIF:DateTimeOriginal"]
    ELSE <<>>

\* setDateInExif: -EXIF:DateTimeOriginal=d -EXIF:CreateDate=d -overwrite_original
setDateInExif(file, formattedDate) ==
    [file EXCEPT !.tags = [t \in {"EXIF:DateTimeOriginal", "EXIF:CreateDate"} |-> formattedDate]]

\* setExifKeywords: one -keywords=word per word; with no word the command names no
\* tag and ExifTool leaves the file as it is
setExifKeywords(file, keywords) ==
    IF keywords = {} THEN file ELSE [file EXCEPT !.keywords = keywords]

IsJpeg(row) ==
    LET extension == lower(splitext(row.fileName)[2])
    IN  extension = ".jpg" \/ extension = ".jpeg"

\* line 240: do we need to set a date ourselves?
NeedsDate(file, row) ==
    currentDateInExif(file) # strftimeExif(photoTimestamp(row))

\* lines 233-244
DateSynced(file, row) ==
    IF args.exif /\ IsJpeg(row) /\ NeedsDate(file, row)
    THEN setDateInExif(file, strftimeExif(photoTimestamp(row)))
    ELSE file

\* lines 247-252
KeywordsSynced(file, row) ==
    IF args.faces THEN setExifKeywords(file, facesByUuid(row.uuid)) ELSE file

postProcessPhoto(file, row) == KeywordsSynced(DateSynced(file, row), row)

\* the commands postProcessPhoto sends to ExifTool, in order
PostProcessCommands(path, file, row) ==
    (IF args.exif /\ IsJpeg(row)
     THEN <<[cmd |-> "get_tags", file |-> path, row |-> row.imagePath, value |-> currentDateInExif(file)]>>
          \o (IF NeedsDate(file, row)
              THEN <<[cmd |-> "set_date", file |-> path, row |-> row.imagePath,
                      value |-> strftimeExif(photoTimestamp(row))]>>
              ELSE <<>>)
     ELSE <<>>)
    \o
    (IF args.faces
     THEN <<[cmd |-> "set_keywords", file |-> path, row |-> row.imagePath,
             value |-> facesByUuid(row.uuid)]>>
     ELSE <<>>)

-----------------------------------------------------------------------------
(* The state after the command line was parsed, the paths were checked, the  *)
(* database was copied to the scratch directory and opened (lines 16-85).    *)

\* lines 19-36: -e, -f and -l are store_true options whose default is True
ArgSets(dryruns, regions) ==
    {[dryrun |-> d, exif |-> TRUE, faces |-> TRUE, location |-> TRUE, region |-> r] :
        d \in dryruns, r \in regions}

IsSortedByDate(rs) == \A i \in 1..(Len(rs) - 1) : rs[i].date <= rs[i + 1].date

ProgramStart ==
    /\ pc = "installed"
    /\ cursor = 1
    /\ stack = <<>>
    /\ stack_timestamp = <<>>
    /\ places_freq = <<>>
    /\ index = 0
    /\ copied = 0
    /\ ignored = 0
    /\ destinationSubDir = <<>>
    /\ photoIdx = 0
    /\ destinationFile = <<>>
    /\ status = 0
    /\ dbOpen = FALSE
    /\ tempDir = TRUE
    /\ etRunning = FALSE
    /\ etLog = <<>>
    /\ decisions = <<>>
    /\ flushes = <<>>

InitWithKeywords(maxRows, dryruns, regions, fileNames, dates, offsets, placeSets, faceSets, tagSets, keywordSets) ==
    /\ args \in ArgSets(dryruns, regions)
    /\ \E n \in 0..maxRows :
         /\ \E fn \in [1..n -> fileNames], dt \in [1..n -> dates], off \in [1..n -> offsets] :
              /\ rows = [i \in 1..n |->
                           [imagePath |-> i, fileName |-> fn[i], date |-> dt[i],
                            offset |-> off[i], uuid |-> i, modelId |-> i]]
              /\ IsSortedByDate(rows)
         /\ RKPlaceForVersion \in [1..n -> placeSets]
         /\ RKFace \in [1..n -> faceSets]
         /\ \E tg \in [1..n -> tagSets], kw \in [1..n -> keywordSets] :
              masters = [i \in 1..n |-> [data |-> i, tags |-> tg[i], keywords |-> kw[i]]]
    /\ dirs = {}
    /\ files = <<>>
    /\ run = 1
    /\ prev = <<>>
    /\ ProgramStart

\* source files without keywords
InitWith(maxRows, dryruns, regions, fileNames, dates, offsets, placeSets, faceSets, tagSets) ==
    InitWithKeywords(maxRows, dryruns, regions, fileNames, dates, offsets, placeSets,
                     faceSets, tagSets, {{}})

-----------------------------------------------------------------------------
(* The script. *)

\* lines 87-132: count the images, leave at once when there is none, start ExifTool
\* the SIGINT handler is installed; connect to the copied database
OpenDatabase ==
    /\ pc = "installed"
    /\ dbOpen' = TRUE
    /\ pc' = "start"
    /\ UNCHANGED <<library, dirs, files, cursor, stack, stack_timestamp, places_freq,
                   index, copied, ignored, destinationSubDir, photoIdx, destinationFile,
                   status, tempDir, etRunning, etLog, decisions, flushes, run, prev>>

Startup ==
    /\ pc = "start"
    /\ IF Len(rows) = 0
       THEN /\ pc' = "exit"
            /\ UNCHANGED etRunning
       ELSE /\ pc' = "loop"
            /\ etRunning' = (args.exif \/ etRunning)
    /\ UNCHANGED <<library, dirs, files, cursor, stack, stack_timestamp, places_freq,
                   index, copied, ignored, destinationSubDir, photoIdx, destinationFile,
                   status, dbOpen, tempDir, etLog, decisions, flushes, run, prev>>

\* the row the cursor is at and its day key (line 281)
row == rows[cursor]
timestamp == strftimeDay(photoTimestamp(row))

\* line 282: does the row belong to the open stack?
SameDay(r, stackDay) == strftimeDay(photoTimestamp(r)) = stackDay

\* lines 282-292: the row joins the open stack
AppendRow ==
    /\ pc = "loop"
    /\ cursor <= Len(rows)
    /\ SameDay(row, stack_timestamp)
    /\ stack' = Append(stack, row)
    /\ places_freq' = TallyAfterAppend(places_freq,
                          IF args.location THEN placeByModelId(row.modelId) ELSE "")
    /\ cursor' = cursor + 1
    /\ UNCHANGED <<library, dirs, files, pc, stack_timestamp, index, copied, ignored,
                   destinationSubDir, photoIdx, destinationFile, status, dbOpen, tempDir,
                   etRunning, etLog, decisions, flushes, run, prev>>

\* lines 295-308: another day is reached and the open stack is handed to the copy loop
StartFlush ==
    /\ pc = "loop"
    /\ cursor <= Len(rows)
    /\ ~SameDay(row, stack_timestamp)
    /\ Len(stack) > 0
    /\ destinationSubDir' = SubDirName(stack_timestamp, DominantPlace(places_freq))
    /\ flushes' = Append(flushes, [day |-> stack_timestamp,
                                   dir |-> destinationSubDir',
                                   photos |-> [i \in 1..Len(stack) |-> stack[i].imagePath]])
    /\ photoIdx' = 1
    /\ pc' = "copy"
    /\ UNCHANGED <<library, dirs, files, cursor, stack, stack_timestamp, places_freq,
                   index, copied, ignored, destinationFile, status, dbOpen, tempDir,
                   etRunning, etLog, decisions, run, prev>>

\* lines 311-317: copyPhoto on the next photo of the stack, and the counters
CopyPhoto ==
    /\ pc = "copy"
    /\ LET photo == stack[photoIdx] IN
         /\ destinationFile' = DestinationFile(photo, destinationSubDir)
         /\ status' = CopyStatus(files, photo, destinationSubDir)
         /\ dirs' = DirsAfterCopy(dirs, destinationSubDir)
         /\ files' = FilesAfterCopy(files, photo, destinationSubDir)
         /\ copied' = IF status' = 1 THEN copied + 1 ELSE copied
         /\ ignored' = IF status' = 2 THEN ignored + 1 ELSE ignored
         /\ decisions' = Append(decisions, [photo |-> photo.imagePath,
                                            file |-> destinationFile',
                                            status |-> status'])
    /\ pc' = "post"
    /\ UNCHANGED <<library, cursor, stack, stack_timestamp, places_freq, index,
                   destinationSubDir, photoIdx, dbOpen, tempDir, etRunning, etLog,
                   flushes, run, prev>>

\* lines 319-326: post-processing unless dry run, progress, next photo of the stack
PostProcess ==
    /\ pc = "post"
    /\ LET photo == stack[photoIdx] IN
         IF ~args.dryrun
         THEN /\ files' = [files EXCEPT ![destinationFile] = postProcessPhoto(@, photo)]
              /\ etLog' = etLog \o PostProcessCommands(destinationFile, files[destinationFile], photo)
         ELSE UNCHANGED <<files, etLog>>
    /\ index' = index + 1
    /\ IF photoIdx < Len(stack)
       THEN /\ photoIdx' = photoIdx + 1
            /\ pc' = "copy"
       ELSE /\ photoIdx' = 0
            /\ pc' = "reset"
    /\ UNCHANGED <<library, dirs, cursor, stack, stack_timestamp, places_freq, copied,
                   ignored, destinationSubDir, destinationFile, status, dbOpen, tempDir,
                   etRunning, decisions, flushes, run, prev>>

\* lines 331-344: the row opens a new stack
OpenStack ==
    /\ \/ pc = "reset"
       \/ /\ pc = "loop"
          /\ cursor <= Len(rows)
          /\ ~SameDay(row, stack_timestamp)
          /\ Len(stack) = 0
    /\ stack' = <<row>>
    /\ stack_timestamp' = timestamp
    /\ places_freq' = TallySeed(places_freq,
                          IF args.location THEN placeByModelId(row.modelId) ELSE "")
    /\ cursor' = cursor + 1
    /\ pc' = "loop"
    /\ UNCHANGED <<library, dirs, files, index, copied, ignored, destinationSubDir,
                   photoIdx, destinationFile, status, dbOpen, tempDir, etRunning, etLog,
                   decisions, flushes, run, prev>>

\* lines 347-349: the cursor is exhausted; the script reports completion
EndLoop ==
    /\ pc = "loop"
    /\ cursor > Len(rows)
    /\ pc' = "completed"
    /\ UNCHANGED <<library, dirs, files, cursor, stack, stack_timestamp, places_freq,
                   index, copied, ignored, destinationSubDir, photoIdx, destinationFile,
                   status, dbOpen, tempDir, etRunning, etLog, decisions, flushes, run, prev>>

\* lines 66-73, 351: cleanUp()
cleanUp ==
    /\ pc = "completed"
    /\ dbOpen' = FALSE
    /\ tempDir' = FALSE
    /\ etRunning' = FALSE
    /\ pc' = "exit"
    /\ UNCHANGED <<library, dirs, files, cursor, stack, stack_timestamp, places_freq,
                   index, copied, ignored, destinationSubDir, photoIdx, destinationFile,
                   status, etLog, decisions, flushes, run, prev>>

Next ==
    \/ OpenDatabase
    \/ Startup
    \/ AppendRow
    \/ StartFlush
    \/ CopyPhoto
    \/ PostProcess
    \/ OpenStack
    \/ EndLoop
    \/ cleanUp

-----------------------------------------------------------------------------
(* The script is run again on the same library and the same destination:   *)
(* the destination tree stays, everything else starts afresh (a new        *)
(* scratch directory, a new cursor, a new ExifTool).  The dry-run switch   *)
(* is chosen anew; prev keeps what the run that ended did.                 *)

RunSummary ==
    [args |-> args, decisions |-> decisions, copied |-> copied, ignored |-> ignored,
     etLog |-> etLog, flushes |-> flushes, run |-> run, files |-> files]

\* The statements of cleanUp that the main program has already executed when a
\* SIGINT arrives: none before the final call; during it, db.close() or
\* db.close() and shutil.rmtree(tempDir).
CleanUpProgress == IF pc = "completed" THEN 0..2 ELSE {0}

\* SIGINT while the handler is installed: cleanOnInterrupt calls cleanUp and then
\* sys.exit(0). cleanUp raises NameError while db is not yet defined, and
\* shutil.rmtree raises FileNotFoundError when the directory is already gone.
Interrupt ==
    /\ pc \in {"installed", "start", "loop", "copy", "post", "reset", "completed"}
    /\ \E k \in CleanUpProgress :
         IF pc = "installed"
         THEN /\ pc' = "crashed"
              /\ UNCHANGED <<dbOpen, tempDir, etRunning>>
         ELSE IF ~tempDir \/ k >= 2
         THEN /\ pc' = "crashed"
              /\ dbOpen' = FALSE
              /\ tempDir' = FALSE
              /\ UNCHANGED etRunning
         ELSE /\ pc' = "interrupted"
              /\ dbOpen' = FALSE
              /\ tempDir' = FALSE
              /\ etRunning' = FALSE
    /\ UNCHANGED <<library, dirs, files, cursor, stack, stack_timestamp, places_freq,
                   index, copied, ignored, destinationSubDir, photoIdx, destinationFile,
                   status, etLog, decisions, flushes, run, prev>>

NextSignal == Next \/ Interrupt

Restart ==
    /\ pc = "exit"
    /\ run < MaxRuns
    /\ run' = run + 1
    /\ prev' = RunSummary
    /\ \E d \in BOOLEAN : args' = [args EXCEPT !.dryrun = d]
    /\ pc' = "installed"
    /\ cursor' = 1
    /\ stack' = <<>>
    /\ stack_timestamp' = <<>>
    /\ places_freq' = <<>>
    /\ index' = 0
    /\ copied' = 0
    /\ ignored' = 0
    /\ destinationSubDir' = <<>>
    /\ photoIdx' = 0
    /\ destinationFile' = <<>>
    /\ status' = 0
    /\ dbOpen' = FALSE
    /\ tempDir' = TRUE
    /\ etRunning' = FALSE
    /\ etLog' = <<>>
    /\ decisions' = <<>>
    /\ flushes' = <<>>
    /\ UNCHANGED <<rows, RKPlaceForVersion, RKFace, masters, dirs, files>>

NextRerun == Next \/ Restart

-----------------------------------------------------------------------------
(* Inputs. *)

JpgA == FileName("IMG_1", ".JPG")
JpgB == FileName("IMG_2", ".Jpeg")
PngA == FileName("IMG_1", ".PNG")

\* seconds since the epoch; with the offsets below they fall on day 0, 1 or 2
Dates == {80000, 82000, 84000, 170000}
Offsets == {0, 7200}

NoTags == <<>>
Date0 == strftimeExif(82000)
Date1 == strftimeExif(89200)
TagSets ==
    { NoTags,
      [t \in {"EXIF:CreateDate"} |-> Date0],
      [t \in {"EXIF:CreateDate"} |-> Date1],
      [t \in {"EXIF:DateTimeOriginal"} |-> Date0],
      [t \in {"EXIF:CreateDate", "EXIF:DateTimeOriginal"} |->
          IF t = "EXIF:CreateDate" THEN Date0 ELSE Date1] }

\* grouping: capture times and time zones vary
Init ==
    InitWith(MaxPhotos, BOOLEAN, BOOLEAN, {JpgA}, Dates, Offsets,
             {{}, {1}, {2, 3}}, {{}}, {NoTags})

Spec == Init /\ [][Next]_vars

\* tallies: longer stacks, photos of two days
InitTally ==
    InitWith(MaxPhotos + 1, {FALSE}, BOOLEAN, {JpgA}, {82000}, Offsets,
             {{}, {1}, {2, 3}}, {{}}, {NoTags})

SpecTally == InitTally /\ [][Next]_vars

\* copies: file names collide, the export is run again
InitRerun ==
    InitWith(MaxPhotos, BOOLEAN, {FALSE}, {JpgA, JpgB}, {80000, 170000}, {0},
             {{}, {1}}, {{}}, {NoTags})

SpecRerun == InitRerun /\ [][NextRerun]_vars

\* synchronisation: photos of one day differ in time and faces, file names
\* collide, the export is run again
InitSync ==
    InitWith(MaxPhotos, {FALSE}, {FALSE}, {JpgA, JpgB}, {80000, 82000, 170000}, {0},
             {{}}, {{}, {"Ann"}}, {NoTags})

SpecSync == InitSync /\ [][NextRerun]_vars

\* places: photos with no, one, several and unknown places, both modes
DanglingPlaceId == 9

InitPlaces ==
    InitWith(MaxPhotos, {FALSE}, BOOLEAN, {JpgA}, {82000, 170000}, {0},
             {{}, {1}, {2, 3}, {1, 2, 3}, {3, DanglingPlaceId}, {DanglingPlaceId}},
             {{}}, {NoTags})

SpecPlaces == InitPlaces /\ [][Next]_vars

\* interruption: a small library, SIGINT at any point
InitSignal ==
    InitWith(MaxPhotos, BOOLEAN, {FALSE}, {JpgA}, {82000, 170000}, {0}, {{}}, {{}}, {NoTags})

SpecSignal == InitSignal /\ [][NextSignal]_vars

\* keywords: faces, extensions and the keywords of the source files vary
InitFaces ==
    InitWithKeywords(MaxPhotos, {FALSE}, {FALSE}, {JpgA, PngA}, {82000, 170000}, {0},
                     {{}}, {{}, {"Ann"}}, {NoTags}, {{}, {"Holiday"}})

SpecFaces == InitFaces /\ [][Next]_vars

\* metadata: extensions and the tags of the source files vary
InitExif ==
    InitWith(MaxPhotos, {FALSE}, {FALSE}, {JpgA, JpgB, PngA}, {82000, 170000}, {0},
             {{}}, {{"Ann"}}, TagSets)

SpecExif == InitExif /\ [][Next]_vars

-----------------------------------------------------------------------------
(* Notions the properties below are stated in, taken from the               *)
(* specification's words rather than from the script.                       *)

\* the calendar day, in UTC, of epoch + date + time zone offset
CalendarDay(r) == (r.date + r.offset) \div 86400

\* YYYY:MM:DD HH:MM:SS of the resolved timestamp
DesiredDate(r) ==
    LET t == r.date + r.offset
    IN  <<t \div 86400, (t % 86400) \div 3600, (t % 3600) \div 60, t % 60>>

\* the file's current date: CreateDate if present, else DateTimeOriginal, else empty
CurrentDate(f) ==
    IF "EXIF:CreateDate" \in DOMAIN f.tags THEN f.tags["EXIF:CreateDate"]
    ELSE IF "EXIF:DateTimeOriginal" \in DOMAIN f.tags THEN f.tags["EXIF:DateTimeOriginal"]
    ELSE <<>>

\* .jpg or .jpeg, whatever the case of the letters
HasJpegExtension(r) == r.fileName.ext \in {".jpg", ".JPG", ".jpeg", ".Jpeg"}

RunEnded == pc \in {"completed", "exit"}

\* the resolved place of the k-th photo of a flushed stack
FlushPlace(f, k) == placeByModelId(rows[f.photos[k]].modelId)

\* how many photos of a flushed stack resolve to a place
FlushCount(f, place) ==
    Cardinality({k \in 1..Len(f.photos) : FlushPlace(f, k) = place})

StatusesOf(ds) == [i \in 1..Len(ds) |-> ds[i].status]

\* the EXIF date comparisons a run made: the reads of the date tags, per photo
ComparisonsOf(log) == {log[i].row : i \in {j \in 1..Len(log) : log[j].cmd = "get_tags"}}

\* the commands the step added to ExifTool's log
NewCommands == SubSeq(etLog', Len(etLog) + 1, Len(etLog'))

-----------------------------------------------------------------------------
(* C1: once the row stream has ended and the run reports completion, the   *)
(* stack that was still open has been flushed: a non-empty library has had *)
(* at least one flush and every photo read has a copy/skip decision,       *)
(* counted in copied or ignored.                                           *)
C1_OpenStackFlushedAtEnd ==
    (RunEnded /\ Len(rows) > 0) =>
        /\ Len(flushes) >= 1
        /\ copied + ignored = Len(rows)
        /\ Len(decisions) = Len(rows)

(* C2: a second non-dry run of the export on the same library and the same *)
(* destination, after a first non-dry run, copies nothing and skips every  *)
(* photo of the library.                                                   *)
C2_SecondRunCopiesNothing ==
    (RunEnded /\ run >= 2 /\ ~args.dryrun /\ ~prev.args.dryrun) =>
        /\ copied = 0
        /\ ignored = Len(rows)

(* C3: on a first run into an empty destination, when no two photos share  *)
(* both day and file name, every photo is copied and none is skipped.      *)
C3_FirstRunCopiesAll ==
    (/\ RunEnded
     /\ run = 1
     /\ \A i, j \in 1..Len(rows) :
          (i # j /\ CalendarDay(rows[i]) = CalendarDay(rows[j]))
             => rows[i].fileName # rows[j].fileName) =>
        /\ copied = Len(rows)
        /\ ignored = 0

(* C4: the day component of the destination sub-directory of every photo   *)
(* given an export decision is the calendar day of that photo's resolved   *)
(* timestamp, whatever the region setting, the places and the other photos.*)
C4_DestinationDayIsCaptureDay ==
    \A i \in 1..Len(decisions) :
        LET d == decisions[i]
        IN  d.file[1][1] = <<CalendarDay(rows[d.photo])>>

\* a photo whose time zone offset moves it to the next day was given a
\* destination with a place suffix
C4_Witness ==
    \E i \in 1..Len(decisions) :
        LET d == decisions[i]
            r == rows[d.photo]
        IN  /\ r.offset # 0
            /\ CalendarDay(r) # r.date \div 86400
            /\ d.file[1][2] # ""

(* C5: the place suffix of every flushed stack is a place that no other    *)
(* place outnumbers among all photos of the stack, the opening photo       *)
(* included; a stack whose photos all resolve to the empty place gets the  *)
(* day key alone.                                                          *)
C5_DominantPlaceIsMostFrequent ==
    \A i \in 1..Len(flushes) :
        LET f == flushes[i]
            n == Len(f.photos)
        IN  IF \A k \in 1..n : FlushPlace(f, k) = ""
            THEN f.dir = <<f.day, "">>
            ELSE /\ f.dir[1] = f.day
                 /\ f.dir[2] # ""
                 /\ \A k \in 1..n :
                        FlushPlace(f, k) # "" =>
                            FlushCount(f, f.dir[2]) >= FlushCount(f, FlushPlace(f, k))

\* a flushed stack of three photos, two at the opening photo's place and one elsewhere
C5_Witness ==
    \E i \in 1..Len(flushes) :
        LET f == flushes[i]
        IN  /\ Len(f.photos) = 3
            /\ FlushPlace(f, 1) = f.dir[2]
            /\ FlushCount(f, f.dir[2]) = 2
            /\ \E k \in 1..3 : FlushPlace(f, k) \notin {"", f.dir[2]}

(* C6: copying a photo of the stack changes exactly one of the two         *)
(* counters, by one: with no file at the destination path the photo counts *)
(* as copied and, outside a dry run, the path then holds the source file;  *)
(* with a file there the photo counts as ignored and the copy leaves every *)
(* file as it is.  No step replaces the image data of an existing file.    *)
C6_CopyOrSkip ==
    [][ /\ pc = "copy" =>
            LET photo == stack[photoIdx]
                path  == <<destinationSubDir, photo.fileName>>
            IN  /\ \/ (copied' = copied + 1 /\ ignored' = ignored)
                   \/ (copied' = copied /\ ignored' = ignored + 1)
                /\ path \notin DOMAIN files =>
                       /\ copied' = copied + 1
                       /\ decisions'[Len(decisions')].status = 1
                       /\ ~args.dryrun => (path \in DOMAIN files'
                                            /\ files'[path] = masters[photo.imagePath])
                /\ path \in DOMAIN files =>
                       /\ ignored' = ignored + 1
                       /\ decisions'[Len(decisions')].status = 2
                       /\ files' = files
        /\ (pc # "copy" /\ run' = run) => UNCHANGED <<copied, ignored>>
        /\ \A p \in DOMAIN files : p \in DOMAIN files' /\ files'[p].data = files[p].data
      ]_vars

\* outside a dry run a photo was skipped because a file copied from another
\* photo is at its destination path
C6_Witness ==
    /\ ~args.dryrun
    /\ \E i \in 1..Len(decisions) :
         /\ decisions[i].status = 2
         /\ files[decisions[i].file].data # decisions[i].photo

(* C7: the photos of one calendar day form one day-stack and go to one     *)
(* destination sub-directory, for any stream ordered by stored capture     *)
(* offset: no day key is flushed twice, no stack is open for a day that    *)
(* was flushed before, and no two photos of a day have different           *)
(* destination sub-directories.  (Stated for streams whose capture offsets *)
(* strictly increase, where the order of the rows is the only one the      *)
(* query can give.)                                                        *)
C7_OneStackPerDay ==
    (\A i \in 1..(Len(rows) - 1) : rows[i].date < rows[i + 1].date) =>
        /\ \A i, j \in 1..Len(flushes) : i # j => flushes[i].day # flushes[j].day
        /\ \A i \in 1..Len(flushes) :
             flushes[i].day = stack_timestamp =>
                (i = Len(flushes) /\ pc \in {"copy", "post", "reset"})
        /\ \A i, j \in 1..Len(decisions) :
             CalendarDay(rows[decisions[i].photo]) = CalendarDay(rows[decisions[j].photo])
                => decisions[i].file[1] = decisions[j].file[1]

(* C8: a dry run writes nothing: no step of it creates a directory,        *)
(* creates or changes a file, or sends a command to ExifTool.              *)
C8_DryRunWritesNothing ==
    [][ args.dryrun => (dirs' = dirs /\ files' = files /\ etLog' = etLog) ]_vars

\* a dry run that ended having counted photos as copied
C8_Witness ==
    /\ args.dryrun
    /\ pc = "exit"
    /\ copied > 0

(* C9: a dry run makes the copy/skip decisions and the EXIF date           *)
(* comparisons of a real run on the same library and the same initial      *)
(* destination: the statuses photo by photo, the two counts and the        *)
(* comparisons made are those of the real run.                             *)
C9_DryRunDecidesAsRealRun ==
    (pc = "exit" /\ run = 2 /\ prev.args.dryrun /\ ~args.dryrun) =>
        /\ StatusesOf(prev.decisions) = StatusesOf(decisions)
        /\ prev.copied = copied
        /\ prev.ignored = ignored
        /\ ComparisonsOf(prev.etLog) = ComparisonsOf(etLog)

(* C10: post-processing, outside a dry run, a photo with a .jpg/.jpeg      *)
(* extension writes both EXIF date tags if and only if the file's current  *)
(* date differs from the desired date of the photo; when they are equal no *)
(* date write is sent and the tags stay.                                   *)
C10_DateWrittenIffDiffers ==
    [][ (pc = "post" /\ ~args.dryrun /\ HasJpegExtension(stack[photoIdx])) =>
            LET photo   == stack[photoIdx]
                before  == files[destinationFile]
                after   == files'[destinationFile]
                written == {k \in 1..Len(NewCommands) : NewCommands[k].cmd = "set_date"}
            IN  /\ (written # {}) <=> (CurrentDate(before) # DesiredDate(photo))
                /\ \A k \in written : /\ NewCommands[k].file = destinationFile
                                      /\ NewCommands[k].value = DesiredDate(photo)
                /\ IF written # {}
                   THEN /\ DOMAIN after.tags = {"EXIF:DateTimeOriginal", "EXIF:CreateDate"}
                        /\ \A t \in DOMAIN after.tags : after.tags[t] = DesiredDate(photo)
                   ELSE after.tags = before.tags
      ]_vars

\* a JPEG whose CreateDate was the desired date while its DateTimeOriginal was
\* not has been post-processed, and no date write was sent for it
C10_Witness ==
    \E i \in 1..Len(etLog) :
        LET c == etLog[i]
        IN  /\ c.cmd = "get_tags"
            /\ HasJpegExtension(rows[c.row])
            /\ c.value = DesiredDate(rows[c.row])
            /\ "EXIF:DateTimeOriginal" \in DOMAIN masters[c.row].tags
            /\ masters[c.row].tags["EXIF:DateTimeOriginal"] # c.value
            /\ \A j \in 1..Len(etLog) : ~(etLog[j].cmd = "set_date" /\ etLog[j].row = c.row)

(* C11: date synchronisation is idempotent across runs: a second non-dry    *)
(* run on the same library and destination, after a complete non-dry run,  *)
(* sends no EXIF date write, and every destination file has the date tags  *)
(* it had after the first run.                                             *)
C11_SecondRunWritesNoDate ==
    (RunEnded /\ run = 2 /\ ~args.dryrun /\ ~prev.args.dryrun) =>
        /\ \A i \in 1..Len(etLog) : etLog[i].cmd # "set_date"
        /\ DOMAIN files = DOMAIN prev.files
        /\ \A p \in DOMAIN files : files[p].tags = prev.files[p].tags

(* C20: after a complete non-dry export into an empty destination every    *)
(* destination .jpg/.jpeg file carries the EXIF date and the face keywords *)
(* of the source photo whose bytes it holds: post-processing a photo       *)
(* skipped as existing leaves the metadata of a file copied from another   *)
(* photo alone.                                                            *)
C20_MetadataOfTheCopiedPhoto ==
    (RunEnded /\ run = 1 /\ ~args.dryrun) =>
        \A p \in DOMAIN files :
            LET f == files[p]
                r == rows[f.data]
            IN  HasJpegExtension(r) =>
                    /\ DOMAIN f.tags = {"EXIF:DateTimeOriginal", "EXIF:CreateDate"}
                    /\ \A t \in DOMAIN f.tags : f.tags[t] = DesiredDate(r)
                    /\ f.keywords = RKFace[r.uuid]

\* the metadata writes sent to ExifTool: date writes, and keyword commands that
\* name at least one keyword
MetadataWrites(log) ==
    {i \in 1..Len(log) :
        \/ log[i].cmd = "set_date"
        \/ (log[i].cmd = "set_keywords" /\ log[i].value # {})}

(* C12: metadata synchronisation touches JPEG files only: for a processed  *)
(* photo whose extension is not .jpg/.jpeg neither a date write nor a      *)
(* keyword write is sent to ExifTool.                                      *)
C12_OnlyJpegsAreWritten ==
    \A i \in MetadataWrites(etLog) : HasJpegExtension(rows[etLog[i].row])

(* C13: once the keywords of a photo have been synchronised, the keyword   *)
(* set of its destination file is exactly the set of the photo's face      *)
(* names, whatever keywords the file had, also when the photo has no face. *)
C13_KeywordsAreTheFaces ==
    (pc \in {"copy", "reset"} /\ Len(etLog) > 0) =>
        LET last == etLog[Len(etLog)]
        IN  last.cmd = "set_keywords" =>
                files[last.file].keywords = RKFace[rows[last.row].uuid]

\* the process has ended: normally, through the interrupt handler, or with an
\* unhandled exception
ProcessEnded == pc \in {"exit", "interrupted", "crashed"}

CleanedUp == ~dbOpen /\ ~tempDir /\ ~etRunning

(* C14: cleanup runs on every exit path: whenever the process has ended,   *)
(* the database handle is closed, the scratch directory is removed and the *)
(* metadata tool is not running.                                           *)
C14_CleanupOnEveryExit == ProcessEnded => CleanedUp

(* C15: an interrupt delivered while the handler is installed always ends  *)
(* in a clean exit through the handler with the cleanup done, never in an  *)
(* unhandled error.                                                        *)
C15_InterruptExitsCleanly ==
    /\ pc # "crashed"
    /\ pc = "interrupted" => CleanedUp

\* the area of the place called name
AreaOf(name) == RKPlace[CHOOSE p \in PlaceIds : RKPlace[p].defaultName = name].area

\* the names of the places associated with a photo
PlaceNamesOf(photo) ==
    {RKPlace[p].defaultName : p \in RKPlaceForVersion[photo.modelId] \cap PlaceIds}

(* C16: for a photo with a place association the hierarchy result is its   *)
(* distinct place names, largest area first, joined by ", ", and the last  *)
(* of those names is the non-hierarchy result; for a photo without place   *)
(* association both modes give the empty string.                           *)
C16_HierarchyEndsInLeaf ==
    \A i \in 1..Len(rows) :
        LET names     == PlaceNamesOf(rows[i])
            hierarchy == placeByModelIdWith(TRUE, rows[i].modelId)
            leaf      == placeByModelIdWith(FALSE, rows[i].modelId)
        IN  IF RKPlaceForVersion[rows[i].modelId] = {}
            THEN hierarchy = "" /\ leaf = ""
            ELSE \E s \in [1..Cardinality(names) -> names] :
                    /\ \A j, k \in DOMAIN s : j < k => AreaOf(s[j]) > AreaOf(s[k])
                    /\ hierarchy = JoinComma(s)
                    /\ leaf = (IF s = <<>> THEN "" ELSE s[Len(s)])

\* a stack has been named after a three-level hierarchy
C16_Witness ==
    \E k \in 1..Len(flushes) : flushes[k].dir[2] = "Utrecht, Garden, Kitchen"

(* C17: day-stacks are flushed in non-decreasing day-key order: for any    *)
(* stream ordered by stored capture offset, with arbitrary time zone       *)
(* offsets, the day key of each flushed stack is at least the day key of   *)
(* the stack flushed before it.  (Stated for streams whose capture offsets *)
(* strictly increase.)                                                     *)
C17_FlushesInDayOrder ==
    (\A i \in 1..(Len(rows) - 1) : rows[i].date < rows[i + 1].date) =>
        \A i \in 1..(Len(flushes) - 1) : flushes[i].day[1] <= flushes[i + 1].day[1]

\* the place a member of the open stack resolves to
StackPlace(k) == placeByModelId(stack[k].modelId)

(* C18: with location augmentation enabled, in every state the keys of the *)
(* place tally are non-empty place names, each mapped to the number of     *)
(* photos of the open stack that resolve to it, every non-empty place of a *)
(* member is a key, photos without place are members all the same (the     *)
(* stack is the run of rows since it was opened), and nothing is carried   *)
(* over from a flushed stack.                                              *)
C18_TallyCountsOpenStack ==
    args.location =>
        /\ \A i \in 1..Len(places_freq) : places_freq[i].place # ""
        /\ \A i, j \in 1..Len(places_freq) :
             i # j => places_freq[i].place # places_freq[j].place
        /\ \A i \in 1..Len(places_freq) :
             places_freq[i].n =
                 Cardinality({k \in 1..Len(stack) : StackPlace(k) = places_freq[i].place})
        /\ \A k \in 1..Len(stack) :
             StackPlace(k) # "" => StackPlace(k) \in TallyKeys(places_freq)
        /\ stack = SubSeq(rows, cursor - Len(stack), cursor - 1)

\* a stack opened after a flush holds a photo without place and two photos of
\* one place, which is not the place of the flushed stack
C18_Witness ==
    /\ pc = "loop"
    /\ Len(flushes) = 1
    /\ Len(stack) = 3
    /\ \E k \in 1..3 : StackPlace(k) = ""
    /\ \E i \in 1..Len(places_freq) :
         /\ places_freq[i].n = 2
         /\ FlushPlace(flushes[1], 1) \notin {"", places_freq[i].place}

\* the non-empty places with the highest count in a flushed stack
TopPlaces(f) ==
    {p \in {FlushPlace(f, k) : k \in 1..Len(f.photos)} \ {""} :
        \A k \in 1..Len(f.photos) :
            FlushPlace(f, k) # "" => FlushCount(f, FlushPlace(f, k)) <= FlushCount(f, p)}

\* the position of the first photo of a flushed stack that resolves to place
FirstOccurrence(f, place) ==
    CHOOSE k \in 1..Len(f.photos) :
        /\ FlushPlace(f, k) = place
        /\ \A j \in 1..(k - 1) : FlushPlace(f, j) # place

(* C19: when several places share the highest tally of a day-stack, the    *)
(* dominant place is the tied place that occurs first in the stack's photo *)
(* order, so the sub-directory name is a function of the input.            *)
C19_TieGoesToFirstPlace ==
    \A i \in 1..Len(flushes) :
        LET f == flushes[i]
        IN  TopPlaces(f) # {} =>
                /\ f.dir[2] \in TopPlaces(f)
                /\ \A p \in TopPlaces(f) :
                     FirstOccurrence(f, f.dir[2]) <= FirstOccurrence(f, p)

\* a flushed stack in which two places tie, the first photo having no place
C19_Witness ==
    \E i \in 1..Len(flushes) :
        /\ Cardinality(TopPlaces(flushes[i])) = 2
        /\ FlushPlace(flushes[i], 1) = ""

====
